---------------------------- MODULE Spec2Model ----------------------------
(***************************************************************************)
(* Arc-flash analysis toolkit: system-model loaders (CSV, JSON, OpenDSS),  *)
(* the model factory, the arc-flash engine with its PPE classifier, and    *)
(* the DER registry.                                                       *)
(*                                                                         *)
(* Python values are modelled as follows.                                  *)
(*   - a str is a TLA+ string, a float/int is an integer;                  *)
(*   - an Optional value is a sequence of length <= 1: <<>> is None and    *)
(*     <<v>> is the value v;                                               *)
(*   - a dict is a function whose DOMAIN is the set of keys present;       *)
(*   - a dict that is iterated (SystemModel.buses/lines/transformers) is   *)
(*     the sequence of its values in insertion order, keyed by id;         *)
(*   - an exception is a record [kind, cause]: kind is the Python class    *)
(*     raised, cause names the raise site.                                 *)
(*   - a positive real of the arc-flash engine (a current, a voltage, an   *)
(*     energy, a ratio) is the record [lg |-> x] of its base-10 logarithm  *)
(*     x in units of 10^-5: products add, quotients subtract, and order is *)
(*     the order of the logarithms.                                        *)
(***************************************************************************)
EXTENDS Integers, Sequences, FiniteSets, TLC

VARIABLES
    \* ---- load_system_model / loaders ----
    disk,        \* the topology stored on disk (rendered as CSV, JSON, DSS)
    pc,          \* position of the running load
    fmt,         \* the format tag passed to load_system_model
    pathExists,  \* path.exists() for the path passed
    loader,      \* which reader's load() was entered ("none" if none)
    opened,      \* TRUE once the path has been opened / compiled
    header,      \* csv.DictReader.fieldnames of the open CSV file (None if none)
    model,       \* the SystemModel under construction inside the loader
    idx,         \* cursor into the rows / array being consumed
    error,       \* the exception that reached the caller (NoError if none)
    returned,    \* what load() returned to the caller (<<>> if nothing)
    validations, \* number of SystemModel.validate() calls in this load
    solver,      \* the network solver: compile commands received, dss.Error
    \* ---- DER registry ----
    ders,        \* DERStorage._ders
    lastCall,    \* the last registry call and its outcome
    payload,     \* the last payload exported by to_sim_payload (<<>> if none)
    \* ---- PPE classifier ----
    energy,      \* incident energy passed to ppe_category, in tenths of cal/cm^2
    label,       \* the label ppe_category returned (<<>> before the call)
    \* ---- arc-flash analysis ----
    params,      \* the module globals ARC_GAP_MM, ARC_ENCLOSURE, ... set by the GUI
    arc          \* the running run_arcflash_analysis call: position, locals, output

loadVars == <<disk, pc, fmt, pathExists, loader, opened, header, model, idx,
              error, returned, validations, solver>>
derVars  == <<ders, lastCall, payload>>
ppeVars  == <<energy, label>>
arcVars  == <<params, arc>>
vars     == <<loadVars, derVars, ppeVars, arcVars>>

----------------------------------------------------------------------------
(* Bounds of the model *)

\* longest topology (number of records on disk)
MaxRecs == 3

\* longest ride-through curve in a DER source
MaxCurve == 2

\* largest incident energy classified, in tenths of cal/cm^2
MaxEnergy == 420

----------------------------------------------------------------------------
(* Python helpers *)

None == <<>>

Some(v) == <<v>>

NoError == [kind |-> "none", cause |-> "none"]

Raise(kind, cause) == [kind |-> kind, cause |-> cause]

\* a step's outcome: the value it produced and the exception it raised
Ok(v) == [val |-> v, err |-> NoError]

Fail(kind, cause) == [val |-> None, err |-> Raise(kind, cause)]

\* row.get(k) on a CSV row (its cells are Optional text)
RowGet(row, k) == IF k \in DOMAIN row THEN row[k] ELSE None

\* obj.get(k) on a JSON object or a plain dict
ObjGet(obj, k) == IF k \in DOMAIN obj THEN Some(obj[k]) ELSE None

\* obj.get(k, dflt)
ObjGetOr(obj, k, dflt) == IF k \in DOMAIN obj THEN obj[k] ELSE dflt

\* x or None, for a CSV cell x
OrNone(x) == IF x # None /\ x[1] # "" THEN x ELSE None

\* an outcome that carries on the exception of outcome r
Propagate(r) == [val |-> None, err |-> r.err]

\* d[k] = v on a plain dict
Put(d, k, v) == [x \in (DOMAIN d) \cup {k} |-> IF x = k THEN v ELSE d[x]]

\* the empty dict
EmptyDict == [x \in {} |-> None]

\* decimal text of the numbers that occur in the model's files
NumText == [s \in {"0", "1", "5"} |-> CASE s = "0" -> 0 [] s = "1" -> 1 [] s = "5" -> 5]

\* float(x) for a CSV cell x: None (row shorter than the header) is a TypeError,
\* text that is not a number (the empty cell included) a ValueError
FloatOfCell(x) ==
    IF x = None THEN Fail("TypeError", "FloatOfNone")
    ELSE IF x[1] \in DOMAIN NumText THEN Ok(NumText[x[1]])
    ELSE Fail("ValueError", "FloatConversion")

\* str(x) for a CSV cell x
StrOfCell(x) == IF x = None THEN "None" ELSE x[1]

\* truth value of a CSV cell: None and "" are falsy
TruthyCell(x) == x # None /\ x[1] # ""

\* truth value of a JSON number or null: None and 0 are falsy
TruthyNum(x) == x # None /\ x[1] # 0

----------------------------------------------------------------------------
(* Entity model: core.py *)

\* the fields the Bus dataclass declares
BusFields == {"bus_id", "kv"}

\* the fields the Line dataclass declares
LineFields == {"line_id", "from_bus", "to_bus", "r_ohm", "x_ohm"}

\* the fields the Transformer dataclass declares
TransformerFields ==
    {"tx_id", "primary_bus", "secondary_bus", "primary_kv", "secondary_kv",
     "z_percent", "tap"}

\* the declared defaults (only Transformer.tap has one)
TransformerDefaults == [tap |-> None]

\* the generated dataclass __init__: a keyword that is no declared field, or a
\* field without default that is not given, is a TypeError
NewDataclass(fields, defaults, kwargs) ==
    IF ~((DOMAIN kwargs) \subseteq fields)
    THEN Fail("TypeError", "UnexpectedKeyword")
    ELSE IF ~((fields \ DOMAIN defaults) \subseteq DOMAIN kwargs)
    THEN Fail("TypeError", "MissingArgument")
    ELSE Ok([f \in fields |-> IF f \in DOMAIN kwargs THEN kwargs[f] ELSE defaults[f]])

Bus(kwargs) == NewDataclass(BusFields, EmptyDict, kwargs)

Line(kwargs) == NewDataclass(LineFields, EmptyDict, kwargs)

Transformer(kwargs) == NewDataclass(TransformerFields, TransformerDefaults, kwargs)

\* SystemModel(): three empty dicts
SystemModel == [buses |-> <<>>, lines |-> <<>>, transformers |-> <<>>]

\* the keys of one of the model's dicts (idf is the entity's id field)
Keys(d, idf) == {d[i][idf] : i \in 1..Len(d)}

\* d[k] = v on one of the model's dicts: a new key is appended, an existing
\* key keeps its place and takes the new value
DictSet(d, idf, k, v) ==
    IF k \in Keys(d, idf)
    THEN [i \in 1..Len(d) |-> IF d[i][idf] = k THEN v ELSE d[i]]
    ELSE Append(d, v)

\* smallest element of a non-empty set of integers
Least(S) == CHOOSE i \in S : \A j \in S : i <= j

\* SystemModel.validate(): the exception it raises, NoError if it returns
validate(m) ==
    LET buses    == Keys(m.buses, "bus_id")
        badLines == {i \in 1..Len(m.lines) :
                        m.lines[i].from_bus \notin buses \/ m.lines[i].to_bus \notin buses}
        badTx    == {i \in 1..Len(m.transformers) :
                        \/ m.transformers[i].primary_bus \notin buses
                        \/ m.transformers[i].secondary_bus \notin buses}
    IN  IF badLines # {}
        THEN IF m.lines[Least(badLines)].from_bus \notin buses
             THEN Raise("ValueError", "UnknownFromBus")
             ELSE Raise("ValueError", "UnknownToBus")
        ELSE IF badTx # {}
        THEN IF m.transformers[Least(badTx)].primary_bus \notin buses
             THEN Raise("ValueError", "UnknownPrimaryBus")
             ELSE Raise("ValueError", "UnknownSecondaryBus")
        ELSE NoError

----------------------------------------------------------------------------
(* The topologies on disk, and their CSV / JSON renderings *)

\* bus records of the dataset
BusRecs ==
    { [type |-> "bus", bus_id |-> "x", kv |-> 5, zone |-> None],
      [type |-> "bus", bus_id |-> "y", kv |-> 1, zone |-> None],
      [type |-> "bus", bus_id |-> "y", kv |-> 1, zone |-> Some("z")] }

\* line records of the dataset ("q" is a bus id no bus record defines)
LineRecs ==
    { [type |-> "line", line_id |-> "x", from_bus |-> "x", to_bus |-> "y",
       r_ohm |-> 1, x_ohm |-> 1, length |-> Some(5), linecode |-> Some("c")],
      [type |-> "line", line_id |-> "y", from_bus |-> "q", to_bus |-> "x",
       r_ohm |-> 1, x_ohm |-> 0, length |-> None, linecode |-> None] }

\* transformer records of the dataset
TxRecs ==
    { [type |-> "transformer", tx_id |-> "x", primary_bus |-> "x",
       secondary_bus |-> "y", primary_kv |-> 5, secondary_kv |-> 1,
       z_percent |-> 5, tap |-> None],
      [type |-> "transformer", tx_id |-> "x", primary_bus |-> "y",
       secondary_bus |-> "y", primary_kv |-> 1, secondary_kv |-> 1,
       z_percent |-> 5, tap |-> Some(0)],
      [type |-> "transformer", tx_id |-> "y", primary_bus |-> "x",
       secondary_bus |-> "q", primary_kv |-> 5, secondary_kv |-> 1,
       z_percent |-> 1, tap |-> Some(1)] }

\* CSV-only rows: an untyped row and a row of an unknown type
NoiseRecs == { [type |-> ""], [type |-> "foo"] }

\* a transformer record whose tx_id is left blank
BlankRecs ==
    { [type |-> "transformer", tx_id |-> "", primary_bus |-> "x",
       secondary_bus |-> "x", primary_kv |-> 5, secondary_kv |-> 1,
       z_percent |-> 5, tap |-> None] }

Records == BusRecs \cup LineRecs \cup TxRecs \cup NoiseRecs \cup BlankRecs

\* all sequences over S of length at most n
SeqsUpTo(S, n) == UNION {[1..k -> S] : k \in 0..n}

Topologies == SeqsUpTo(Records, MaxRecs)

\* the records of topology t whose type is ty, in order
RECURSIVE OfType(_, _)
OfType(t, ty) ==
    IF t = <<>> THEN <<>>
    ELSE IF Head(t).type = ty THEN <<Head(t)>> \o OfType(Tail(t), ty)
    ELSE OfType(Tail(t), ty)

StrCols == {"type", "bus_id", "line_id", "from_bus", "to_bus", "tx_id",
            "primary_bus", "secondary_bus"}

NumCols == {"kv", "r_ohm", "x_ohm", "primary_kv", "secondary_kv", "z_percent"}

OptStrCols == {"zone", "linecode"}

OptNumCols == {"length", "tap"}

\* the header of a CSV file that carries every field of every row type
FullHeader == StrCols \cup NumCols \cup OptStrCols \cup OptNumCols

\* the headers a CSV file may have: complete, without the type column, without
\* the numeric columns; None is the header of an empty file
Headers ==
    { Some(FullHeader), Some(FullHeader \ {"type"}), Some(FullHeader \ NumCols), None }

\* decimal text of a number
TextOfNum(n) == CHOOSE s \in DOMAIN NumText : NumText[s] = n

\* the text of column c in the CSV row written for record r
CellText(r, c) ==
    IF c \notin DOMAIN r THEN ""
    ELSE IF c \in StrCols THEN r[c]
    ELSE IF c \in NumCols THEN TextOfNum(r[c])
    ELSE IF r[c] = None THEN ""
    ELSE IF c \in OptStrCols THEN r[c][1]
    ELSE TextOfNum(r[c][1])

\* the dict csv.DictReader yields for record r under header h
CsvRowOf(r, h) == [c \in h |-> Some(CellText(r, c))]

\* the JSON object written for record r: required keys, and the optional keys
\* that have a value
JsonObjOf(r) ==
    LET keys == {k \in (DOMAIN r) \ {"type"} :
                    k \in OptStrCols \cup OptNumCols => r[k] # None}
    IN  [k \in keys |-> IF k \in OptStrCols \cup OptNumCols THEN r[k][1] ELSE r[k]]

\* the array of JSON objects written for the records of type ty of topology t
JsonArrayOf(t, ty) ==
    LET rs == OfType(t, ty) IN [i \in 1..Len(rs) |-> JsonObjOf(rs[i])]

\* the JSON document written for topology t: an array is written only when it
\* has elements
JsonDocOf(t) ==
    LET arr == [buses        |-> JsonArrayOf(t, "bus"),
                lines        |-> JsonArrayOf(t, "line"),
                transformers |-> JsonArrayOf(t, "transformer")]
        keys == {k \in DOMAIN arr : arr[k] # <<>>}
    IN  [k \in keys |-> arr[k]]

\* the rows csv.DictReader yields for topology t under header h
CsvRowsOf(t, h) == [i \in 1..Len(t) |-> CsvRowOf(t[i], h)]

\* the names of the buses of the circuit the solver compiles from topology t,
\* each once, in order of first definition
RECURSIVE BusNamesOf(_)
BusNamesOf(t) ==
    IF t = <<>> THEN <<>>
    ELSE LET rest == BusNamesOf(SubSeq(t, 1, Len(t) - 1))
             r    == t[Len(t)]
         IN  IF r.type = "bus" /\ r.bus_id \notin {rest[i] : i \in 1..Len(rest)}
             THEN Append(rest, r.bus_id)
             ELSE rest

\* what the solver reports for the circuit compiled from topology t (its
\* elements all have names: the loops stop at an empty name). A bus
\* reference of a line or winding is the bus name followed by its phases, given
\* here as the sequence of its dot-separated parts
DssCircuitOf(t) ==
    LET kvOf(b) == LET i == Least({j \in 1..Len(t) : t[j].type = "bus" /\ t[j].bus_id = b})
                   IN  t[i].kv
        names   == BusNamesOf(t)
        ls      == OfType(t, "line")
        ts      == SelectSeq(OfType(t, "transformer"), LAMBDA r : r.tx_id # "")
    IN  [buses |-> [i \in 1..Len(names) |-> [name |-> names[i], kVBase |-> Some(kvOf(names[i]))]],
         lines |-> [i \in 1..Len(ls) |->
                      [Name |-> ls[i].line_id,
                       Bus1 |-> <<ls[i].from_bus, "1", "2", "3">>,
                       Bus2 |-> <<ls[i].to_bus>>,
                       R1 |-> ls[i].r_ohm, X1 |-> ls[i].x_ohm,
                       Length |-> IF ls[i].length = None THEN 0 ELSE ls[i].length[1],
                       LineCode |-> IF ls[i].linecode = None THEN "" ELSE ls[i].linecode[1]]],
         transformers |-> [i \in 1..Len(ts) |->
                      [Name |-> ts[i].tx_id,
                       Wdg1Bus |-> <<ts[i].primary_bus, "1", "2", "3">>,
                       Wdg1kV |-> ts[i].primary_kv,
                       Wdg2Bus |-> <<ts[i].secondary_bus>>,
                       Wdg2kV |-> ts[i].secondary_kv,
                       XHL |-> ts[i].z_percent,
                       Tap |-> IF ts[i].tap = None THEN 1 ELSE ts[i].tap[1]]]]

----------------------------------------------------------------------------
(* CSV loader: csv_loader.py *)

REQUIRED_BUS_FIELDS == {"bus_id", "kv"}

REQUIRED_LINE_FIELDS == {"line_id", "from_bus", "to_bus", "r_ohm", "x_ohm"}

REQUIRED_TX_FIELDS ==
    {"tx_id", "primary_bus", "secondary_bus", "primary_kv", "secondary_kv", "z_percent"}

\* (row.get("type") or "").strip().lower() for the type texts that occur
RowType(row) ==
    LET cell == RowGet(row, "type")
        text == IF TruthyCell(cell) THEN cell[1] ELSE ""
    IN  CASE text \in {"bus", "Bus", " bus "} -> "bus"
          [] text \in {"line", "LINE"} -> "line"
          [] text \in {"transformer", "Transformer"} -> "transformer"
          [] text \in {"", " "} -> ""
          [] OTHER -> text

\* float(row[c]) if row.get(c) else None
OptFloatOfCell(row, c) ==
    IF TruthyCell(RowGet(row, c))
    THEN LET f == FloatOfCell(row[c])
         IN  IF f.err # NoError THEN Propagate(f) ELSE Ok(Some(f.val))
    ELSE Ok(None)

\* CsvReader._add_bus(model, row): the model with the bus inserted, or the exception
CsvReader_add_bus(m, row) ==
    LET missing == REQUIRED_BUS_FIELDS \ DOMAIN row
        kv      == FloatOfCell(row["kv"])
        bus     == Bus([bus_id |-> StrOfCell(row["bus_id"]),
                        kv     |-> kv.val,
                        zone   |-> OrNone(RowGet(row, "zone"))])
    IN  IF missing # {} THEN Fail("ValueError", "MissingBusFields")
        ELSE IF kv.err # NoError THEN Propagate(kv)
        ELSE IF bus.err # NoError THEN Propagate(bus)
        ELSE IF bus.val.bus_id \in Keys(m.buses, "bus_id")
        THEN Fail("ValueError", "DuplicateBusId")
        ELSE Ok([m EXCEPT !.buses = DictSet(m.buses, "bus_id", bus.val.bus_id, bus.val)])

\* CsvReader._add_line(model, row)
CsvReader_add_line(m, row) ==
    LET missing == REQUIRED_LINE_FIELDS \ DOMAIN row
        r_ohm   == FloatOfCell(row["r_ohm"])
        x_ohm   == FloatOfCell(row["x_ohm"])
        length  == OptFloatOfCell(row, "length")
        line    == Line([line_id  |-> StrOfCell(row["line_id"]),
                         from_bus |-> StrOfCell(row["from_bus"]),
                         to_bus   |-> StrOfCell(row["to_bus"]),
                         r_ohm    |-> r_ohm.val,
                         x_ohm    |-> x_ohm.val,
                         length   |-> length.val,
                         linecode |-> OrNone(RowGet(row, "linecode"))])
    IN  IF missing # {} THEN Fail("ValueError", "MissingLineFields")
        ELSE IF r_ohm.err # NoError THEN Propagate(r_ohm)
        ELSE IF x_ohm.err # NoError THEN Propagate(x_ohm)
        ELSE IF length.err # NoError THEN Propagate(length)
        ELSE IF line.err # NoError THEN Propagate(line)
        ELSE IF line.val.line_id \in Keys(m.lines, "line_id")
        THEN Fail("ValueError", "DuplicateLineId")
        ELSE Ok([m EXCEPT !.lines = DictSet(m.lines, "line_id", line.val.line_id, line.val)])

\* CsvReader._add_transformer(model, row)
CsvReader_add_transformer(m, row) ==
    LET missing      == REQUIRED_TX_FIELDS \ DOMAIN row
        primary_kv   == FloatOfCell(row["primary_kv"])
        secondary_kv == FloatOfCell(row["secondary_kv"])
        z_percent    == FloatOfCell(row["z_percent"])
        tap          == OptFloatOfCell(row, "tap")
        tx == Transformer([tx_id         |-> StrOfCell(row["tx_id"]),
                           primary_bus   |-> StrOfCell(row["primary_bus"]),
                           secondary_bus |-> StrOfCell(row["secondary_bus"]),
                           primary_kv    |-> primary_kv.val,
                           secondary_kv  |-> secondary_kv.val,
                           z_percent     |-> z_percent.val,
                           tap           |-> tap.val])
    IN  IF missing # {} THEN Fail("ValueError", "MissingTxFields")
        ELSE IF primary_kv.err # NoError THEN Propagate(primary_kv)
        ELSE IF secondary_kv.err # NoError THEN Propagate(secondary_kv)
        ELSE IF z_percent.err # NoError THEN Propagate(z_percent)
        ELSE IF tap.err # NoError THEN Propagate(tap)
        ELSE IF tx.err # NoError THEN Propagate(tx)
        ELSE IF tx.val.tx_id \in Keys(m.transformers, "tx_id")
        THEN Fail("ValueError", "DuplicateTxId")
        ELSE Ok([m EXCEPT !.transformers =
                              DictSet(m.transformers, "tx_id", tx.val.tx_id, tx.val)])

\* the body of the row loop of CsvReader.load: an untyped row is skipped, a row
\* of a known type is added, any other type is an error
CsvReader_row(m, row) ==
    LET row_type == RowType(row)
    IN  IF row_type = "" THEN Ok(m)
        ELSE IF row_type = "bus" THEN CsvReader_add_bus(m, row)
        ELSE IF row_type = "line" THEN CsvReader_add_line(m, row)
        ELSE IF row_type = "transformer" THEN CsvReader_add_transformer(m, row)
        ELSE Fail("ValueError", "UnknownRowType")

\* the check of reader.fieldnames in CsvReader.load: in an empty file the
\* fieldnames are None and the membership test itself fails
CsvReader_header(h) ==
    IF h = None THEN Raise("TypeError", "FieldnamesNone")
    ELSE IF "type" \notin h[1] THEN Raise("ValueError", "NoTypeColumn")
    ELSE NoError

----------------------------------------------------------------------------
(* JSON loader: json_loader.py *)

\* float(obj[k]) if obj.get(k) else None
OptFloatOfNum(obj, k) == IF TruthyNum(ObjGet(obj, k)) THEN Some(obj[k]) ELSE None

\* the body of the loop over data["buses"]
JsonReader_bus(m, b) ==
    LET bus == Bus([bus_id |-> b["bus_id"], kv |-> b["kv"], zone |-> ObjGet(b, "zone")])
    IN  IF "bus_id" \notin DOMAIN b THEN Fail("KeyError", "bus_id")
        ELSE IF b["bus_id"] \in Keys(m.buses, "bus_id")
        THEN Fail("ValueError", "DuplicateBusId")
        ELSE IF "kv" \notin DOMAIN b THEN Fail("KeyError", "kv")
        ELSE IF bus.err # NoError THEN Propagate(bus)
        ELSE Ok([m EXCEPT !.buses = DictSet(m.buses, "bus_id", b["bus_id"], bus.val)])

\* the first of the keys ks (in the order given) that obj lacks, as a KeyError
FirstMissingKey(obj, ks) ==
    LET miss == {i \in 1..Len(ks) : ks[i] \notin DOMAIN obj}
    IN  IF miss = {} THEN NoError ELSE Raise("KeyError", ks[Least(miss)])

\* the body of the loop over data["lines"]
JsonReader_line(m, l) ==
    LET keyErr == FirstMissingKey(l, <<"from_bus", "to_bus", "r_ohm", "x_ohm">>)
        line == Line([line_id  |-> l["line_id"],
                      from_bus |-> l["from_bus"],
                      to_bus   |-> l["to_bus"],
                      r_ohm    |-> l["r_ohm"],
                      x_ohm    |-> l["x_ohm"],
                      length   |-> OptFloatOfNum(l, "length"),
                      linecode |-> ObjGet(l, "linecode")])
    IN  IF "line_id" \notin DOMAIN l THEN Fail("KeyError", "line_id")
        ELSE IF l["line_id"] \in Keys(m.lines, "line_id")
        THEN Fail("ValueError", "DuplicateLineId")
        ELSE IF keyErr # NoError THEN [val |-> None, err |-> keyErr]
        ELSE IF line.err # NoError THEN Propagate(line)
        ELSE Ok([m EXCEPT !.lines = DictSet(m.lines, "line_id", l["line_id"], line.val)])

\* the body of the loop over data["transformers"]
JsonReader_transformer(m, t) ==
    LET keyErr == FirstMissingKey(t, <<"primary_bus", "secondary_bus", "primary_kv",
                                       "secondary_kv", "z_percent">>)
        tx == Transformer([tx_id         |-> t["tx_id"],
                           primary_bus   |-> t["primary_bus"],
                           secondary_bus |-> t["secondary_bus"],
                           primary_kv    |-> t["primary_kv"],
                           secondary_kv  |-> t["secondary_kv"],
                           z_percent     |-> t["z_percent"],
                           tap           |-> OptFloatOfNum(t, "tap")])
    IN  IF "tx_id" \notin DOMAIN t THEN Fail("KeyError", "tx_id")
        ELSE IF t["tx_id"] \in Keys(m.transformers, "tx_id")
        THEN Fail("ValueError", "DuplicateTxId")
        ELSE IF keyErr # NoError THEN [val |-> None, err |-> keyErr]
        ELSE IF tx.err # NoError THEN Propagate(tx)
        ELSE Ok([m EXCEPT !.transformers =
                              DictSet(m.transformers, "tx_id", t["tx_id"], tx.val)])

----------------------------------------------------------------------------
(* Network-solver loader: dss_loader.py *)

\* s.split('.')[0] for a bus reference given as its dot-separated parts
SplitDotFirst(parts) == parts[1]

\* the body of the loop over dss.Circuit.AllBusNames()
DssReader_bus(m, b) ==
    LET bus == Bus([bus_id |-> b.name,
                    kv     |-> IF b.kVBase # None THEN b.kVBase[1] ELSE 0])
    IN  IF bus.err # NoError THEN Propagate(bus)
        ELSE Ok([m EXCEPT !.buses = DictSet(m.buses, "bus_id", b.name, bus.val)])

\* the body of the loop over the solver's lines
DssReader_line(m, ln) ==
    LET line == Line([line_id  |-> ln.Name,
                      from_bus |-> SplitDotFirst(ln.Bus1),
                      to_bus   |-> SplitDotFirst(ln.Bus2),
                      r_ohm    |-> ln.R1,
                      x_ohm    |-> ln.X1,
                      length   |-> Some(ln.Length),
                      linecode |-> IF ln.LineCode # "" THEN Some(ln.LineCode) ELSE None])
    IN  IF line.err # NoError THEN Propagate(line)
        ELSE Ok([m EXCEPT !.lines = DictSet(m.lines, "line_id", ln.Name, line.val)])

\* the body of the loop over the solver's transformers
DssReader_transformer(m, t) ==
    LET tx == Transformer([tx_id         |-> t.Name,
                           primary_bus   |-> SplitDotFirst(t.Wdg1Bus),
                           secondary_bus |-> SplitDotFirst(t.Wdg2Bus),
                           primary_kv    |-> t.Wdg1kV,
                           secondary_kv  |-> t.Wdg2kV,
                           z_percent     |-> t.XHL,
                           tap           |-> Some(t.Tap)])
    IN  IF tx.err # NoError THEN Propagate(tx)
        ELSE Ok([m EXCEPT !.transformers = DictSet(m.transformers, "tx_id", t.Name, tx.val)])

----------------------------------------------------------------------------
(* Model factory: system_model/__init__.py *)

\* the format tags callers pass
FormatTags == {"csv", "CSV", "json", "Json", "dss", "DSS", "xml"}

\* a dispatch that compares the tag as given
lowerOmitted(tag) == tag

\* str.lower() on the format tags
lower(tag) ==
    CASE tag \in {"csv", "CSV"} -> "csv"
      [] tag \in {"json", "Json"} -> "json"
      [] tag \in {"dss", "DSS"} -> "dss"
      [] OTHER -> tag

\* the branch load_system_model takes for a tag: the reader it constructs, or
\* "unsupported"
Dispatch(tag) ==
    LET f == lower(tag)
    IN  IF f = "csv" THEN "csv"
        ELSE IF f = "json" THEN "json"
        ELSE IF f = "dss" THEN "dss"
        ELSE "unsupported"

----------------------------------------------------------------------------
(* The loads, step by step *)

\* the variables of a load that stay as the call set them
callVars == <<disk, fmt, pathExists>>

\* the state of the other components, which a load does not touch
othersOfLoad == <<derVars, ppeVars, arcVars>>

\* load_system_model(path, fmt): lower the tag and construct the reader of the
\* matching branch, or raise for any other tag
load_system_model ==
    /\ pc = "idle"
    /\ \E tag \in FormatTags, ex \in BOOLEAN :
          /\ fmt' = tag
          /\ pathExists' = ex
          /\ LET d == Dispatch(tag)
             IN  IF d = "unsupported"
                 THEN /\ error' = Raise("ValueError", "UnsupportedFileType")
                      /\ pc' = "done"
                 ELSE /\ pc' = IF d = "csv" THEN "csv_load"
                               ELSE IF d = "json" THEN "json_load"
                               ELSE "dss_init"
                      /\ UNCHANGED error
    /\ UNCHANGED <<disk, loader, opened, header, model, idx, returned, validations, solver>>
    /\ UNCHANGED othersOfLoad

\* the body of the loop a loader is in at position kind
LoopBody(kind, m, item) ==
    CASE kind = "csv_rows" -> CsvReader_row(m, item)
      [] kind = "json_buses" -> JsonReader_bus(m, item)
      [] kind = "json_lines" -> JsonReader_line(m, item)
      [] kind = "json_transformers" -> JsonReader_transformer(m, item)
      [] kind = "dss_buses" -> DssReader_bus(m, item)
      [] kind = "dss_lines" -> DssReader_line(m, item)
      [] kind = "dss_transformers" -> DssReader_transformer(m, item)

\* one pass through a loop of a loader: the body applied to the next item, the
\* exception it raises propagated to the caller, or the loop left
LoopStep(here, next, items) ==
    /\ pc = here
    /\ IF idx <= Len(items)
       THEN LET r == LoopBody(here, model, items[idx])
            IN  IF r.err # NoError
                THEN /\ error' = r.err
                     /\ pc' = "done"
                     /\ UNCHANGED <<model, idx>>
                ELSE /\ model' = r.val
                     /\ idx' = idx + 1
                     /\ UNCHANGED <<error, pc>>
       ELSE /\ pc' = next
            /\ idx' = 1
            /\ UNCHANGED <<model, error>>
    /\ UNCHANGED <<callVars, loader, opened, header, returned, validations, solver>>
    /\ UNCHANGED othersOfLoad

\* a load that hands the model over although validate raised
ValidateAndReturnAnyway(m) == [ret |-> Some(m), err |-> validate(m)]

\* model.validate(); return model -- what the caller gets: the model if
\* validate returns, nothing and the exception if it raises
ValidateAndReturn(m) ==
    LET e == validate(m)
    IN  IF e # NoError THEN [ret |-> None, err |-> e]
        ELSE [ret |-> Some(m), err |-> NoError]

\* the end of a load: the single validate call and the return
Finish(here) ==
    /\ pc = here
    /\ validations' = validations + 1
    /\ LET out == ValidateAndReturn(model)
       IN  /\ returned' = out.ret
           /\ error' = out.err
    /\ pc' = "done"
    /\ UNCHANGED <<callVars, loader, opened, header, model, idx, solver>>
    /\ UNCHANGED othersOfLoad

\* CsvReader.load up to the row loop: existence check, open, header check
CsvReader_load ==
    /\ pc = "csv_load"
    /\ loader' = "csv"
    /\ model' = SystemModel
    /\ IF ~pathExists
       THEN /\ error' = Raise("FileNotFoundError", "CsvFileNotFound")
            /\ pc' = "done"
            /\ UNCHANGED <<opened, header>>
       ELSE /\ opened' = TRUE
            /\ \E h \in Headers :
                  /\ header' = h
                  /\ error' = CsvReader_header(h)
                  /\ pc' = IF CsvReader_header(h) # NoError THEN "done" ELSE "csv_rows"
    /\ idx' = 1
    /\ UNCHANGED <<callVars, returned, validations, solver>>
    /\ UNCHANGED othersOfLoad

\* the row loop of CsvReader.load
CsvReader_rows ==
    LoopStep("csv_rows", "csv_validate", CsvRowsOf(disk, header[1]))

CsvReader_finish == Finish("csv_validate")

\* JsonReader.load up to the first loop: existence check, open, json.load
JsonReader_load ==
    /\ pc = "json_load"
    /\ loader' = "json"
    /\ model' = SystemModel
    /\ IF ~pathExists
       THEN /\ error' = Raise("FileNotFoundError", "JsonFileNotFound")
            /\ pc' = "done"
            /\ UNCHANGED opened
       ELSE /\ opened' = TRUE
            /\ pc' = "json_buses"
            /\ UNCHANGED error
    /\ idx' = 1
    /\ UNCHANGED <<callVars, header, returned, validations, solver>>
    /\ UNCHANGED othersOfLoad

JsonReader_buses ==
    LoopStep("json_buses", "json_lines",
             ObjGetOr(JsonDocOf(disk), "buses", <<>>))

JsonReader_lines ==
    LoopStep("json_lines", "json_transformers",
             ObjGetOr(JsonDocOf(disk), "lines", <<>>))

JsonReader_transformers ==
    LoopStep("json_transformers", "json_validate",
             ObjGetOr(JsonDocOf(disk), "transformers", <<>>))

JsonReader_finish == Finish("json_validate")

\* DssReader(): the constructor fails when opendssdirect could not be imported
DssReader_init ==
    /\ pc = "dss_init"
    /\ \E HAS_DSS \in BOOLEAN :
          IF ~HAS_DSS
          THEN /\ error' = Raise("ImportError", "NoOpenDssDirect")
               /\ pc' = "done"
          ELSE /\ pc' = "dss_load"
               /\ UNCHANGED error
    /\ UNCHANGED <<callVars, loader, opened, header, model, idx, returned, validations, solver>>
    /\ UNCHANGED othersOfLoad

\* what dss.Error holds after a compile: number 0 and no text, or an error
SolverErrors ==
    { [Number |-> 0, Description |-> ""],
      [Number |-> 1, Description |-> "Unknown command"],
      [Number |-> 302, Description |-> "Redirect file not found"] }

\* a check that takes any error number for success
DssCompileCheckSkipped(Number, Description) == NoError

\* error = dss.Error.Number(); if error != 0: raise RuntimeError(... msg)
DssCompileCheck(Number, Description) ==
    IF Number # 0
    THEN [kind |-> "RuntimeError", cause |-> "DssCompileError", msg |-> Description]
    ELSE NoError

\* DssReader.load up to the bus loop: existence check, ClearAll, compile, and
\* the check of the solver's error number
DssReader_load ==
    /\ pc = "dss_load"
    /\ loader' = "dss"
    /\ model' = SystemModel
    /\ IF ~pathExists
       THEN /\ error' = Raise("FileNotFoundError", "DssFileNotFound")
            /\ pc' = "done"
            /\ UNCHANGED <<opened, solver>>
       ELSE /\ opened' = TRUE
            /\ \E e \in SolverErrors :
                  /\ solver' = [compiles |-> solver.compiles + 1, Number |-> e.Number,
                                Description |-> e.Description]
                  /\ error' = DssCompileCheck(e.Number, e.Description)
                  /\ pc' = IF DssCompileCheck(e.Number, e.Description) # NoError
                           THEN "done" ELSE "dss_buses"
    /\ idx' = 1
    /\ UNCHANGED <<callVars, header, returned, validations>>
    /\ UNCHANGED othersOfLoad

DssReader_buses ==
    LoopStep("dss_buses", "dss_lines", DssCircuitOf(disk).buses)

DssReader_lines ==
    LoopStep("dss_lines", "dss_transformers", DssCircuitOf(disk).lines)

DssReader_transformers ==
    LoopStep("dss_transformers", "dss_validate",
             DssCircuitOf(disk).transformers)

DssReader_finish == Finish("dss_validate")

\* no load running, nothing loaded
LoadIdle ==
    /\ pc = "idle"
    /\ fmt = ""
    /\ pathExists = FALSE
    /\ loader = "none"
    /\ opened = FALSE
    /\ header = None
    /\ model = SystemModel
    /\ idx = 1
    /\ error = NoError
    /\ returned = None
    /\ validations = 0
    /\ solver = [compiles |-> 0, Number |-> 0, Description |-> ""]

\* an empty registry, nothing exported
DerIdle ==
    /\ ders = EmptyDict
    /\ lastCall = [op |-> "none"]
    /\ payload = None

\* nothing classified
PpeIdle ==
    /\ energy = 0
    /\ label = None

\* the fault parameters as the module sets them at import, no analysis run
ArcIdle ==
    /\ params = [ARC_GAP_MM |-> None, ARC_ENCLOSURE |-> None,
                 WORKING_DISTANCE_MM |-> None, IS_GROUNDED |-> None,
                 CLEARING_TIME_S |-> None]
    /\ arc = [pc |-> "idle", bus_name |-> None, V_kV |-> None, I_bf |-> None,
              Ia |-> None, E |-> None, ppe |-> None, printed |-> None,
              steps |-> <<>>, err |-> NoError]

Init ==
    /\ disk \in Topologies
    /\ LoadIdle
    /\ DerIdle
    /\ PpeIdle
    /\ ArcIdle

Next ==
    \/ load_system_model
    \/ CsvReader_load
    \/ CsvReader_rows
    \/ CsvReader_finish
    \/ JsonReader_load
    \/ JsonReader_buses
    \/ JsonReader_lines
    \/ JsonReader_transformers
    \/ JsonReader_finish
    \/ DssReader_init
    \/ DssReader_load
    \/ DssReader_buses
    \/ DssReader_lines
    \/ DssReader_transformers
    \/ DssReader_finish

Spec == Init /\ [][Next]_vars

----------------------------------------------------------------------------
(* The loads as functions of the file *)

\* a loop run from item i on: the model after the last item, or the first exception
RECURSIVE RunLoop(_, _, _, _)
RunLoop(kind, items, i, m) ==
    IF i > Len(items) THEN Ok(m)
    ELSE LET r == LoopBody(kind, m, items[i])
         IN  IF r.err # NoError THEN r ELSE RunLoop(kind, items, i + 1, r.val)

\* CsvReader().load(path) for an existing file with header h and the rows of
\* topology t: what is returned and what is raised
CsvReader_result(h, t) ==
    LET hdr  == CsvReader_header(h)
        rows == RunLoop("csv_rows", CsvRowsOf(t, h[1]), 1, SystemModel)
    IN  IF hdr # NoError THEN [ret |-> None, err |-> hdr]
        ELSE IF rows.err # NoError THEN [ret |-> None, err |-> rows.err]
        ELSE ValidateAndReturn(rows.val)

\* JsonReader().load(path) for an existing file holding the document of topology t
JsonReader_result(t) ==
    LET data  == JsonDocOf(t)
        buses == RunLoop("json_buses", ObjGetOr(data, "buses", <<>>), 1, SystemModel)
        lines == RunLoop("json_lines", ObjGetOr(data, "lines", <<>>), 1, buses.val)
        txs   == RunLoop("json_transformers", ObjGetOr(data, "transformers", <<>>), 1,
                         lines.val)
    IN  IF buses.err # NoError THEN [ret |-> None, err |-> buses.err]
        ELSE IF lines.err # NoError THEN [ret |-> None, err |-> lines.err]
        ELSE IF txs.err # NoError THEN [ret |-> None, err |-> txs.err]
        ELSE ValidateAndReturn(txs.val)

----------------------------------------------------------------------------
(* Properties of the loaders *)

EntityTypes == {"bus", "line", "transformer"}

\* the id of a bus, line or transformer record
IdOf(r) ==
    IF r.type = "bus" THEN r.bus_id ELSE IF r.type = "line" THEN r.line_id ELSE r.tx_id

\* the bus ids topology t defines
BusIdsOf(t) == {t[i].bus_id : i \in {j \in 1..Len(t) : t[j].type = "bus"}}

\* the bus ids record r refers to
RefsOf(r) ==
    IF r.type = "line" THEN {r.from_bus, r.to_bus}
    ELSE IF r.type = "transformer" THEN {r.primary_bus, r.secondary_bus}
    ELSE {}

\* some line or transformer of t names a bus that t does not define
Dangling(t) == \E i \in 1..Len(t) : ~(RefsOf(t[i]) \subseteq BusIdsOf(t))

\* the records that repeat the id of an earlier record of their own type
Repeats(t) ==
    {i \in 1..Len(t) : /\ t[i].type \in EntityTypes
                       /\ \E j \in 1..(i - 1) : /\ t[j].type = t[i].type
                                                /\ IdOf(t[j]) = IdOf(t[i])}

\* every row is a bus, a line or a transformer, or is untyped
KnownTypes(t) == \A i \in 1..Len(t) : t[i].type \in EntityTypes \cup {""}

\* the topology is expressible both as CSV and as JSON
Expressible(t) == \A i \in 1..Len(t) : t[i].type \in EntityTypes

\* the exceptions of validate
RefIntegrityCauses ==
    {"UnknownFromBus", "UnknownToBus", "UnknownPrimaryBus", "UnknownSecondaryBus"}

DuplicateCauses == {"DuplicateBusId", "DuplicateLineId", "DuplicateTxId"}

SchemaCauses ==
    {"NoTypeColumn", "MissingBusFields", "MissingLineFields", "MissingTxFields",
     "UnknownRowType"}

UnsupportedCauses == {"UnsupportedFileType"}

\* a finished CSV or JSON load of an existing file (for CSV, with a complete header)
FinishedFileLoad ==
    /\ pc = "done"
    /\ loader \in {"csv", "json"}
    /\ opened
    /\ loader = "csv" => header = Some(FullHeader)

\* every reference of model m names a bus of m
RefsResolve(m) ==
    LET buses == Keys(m.buses, "bus_id")
    IN  /\ \A i \in 1..Len(m.lines) :
              m.lines[i].from_bus \in buses /\ m.lines[i].to_bus \in buses
        /\ \A i \in 1..Len(m.transformers) :
              /\ m.transformers[i].primary_bus \in buses
              /\ m.transformers[i].secondary_bus \in buses

\* C1: every model a CSV or JSON load returns has all its bus references
\* resolved, and a load whose input (otherwise well formed: known row types,
\* no repeated id) names an undefined bus fails with the referential-integrity
\* error and returns nothing.
C1_ReferentialIntegrity ==
    /\ (loader \in {"csv", "json"} /\ returned # None) => RefsResolve(returned[1])
    /\ (FinishedFileLoad /\ KnownTypes(disk) /\ Repeats(disk) = {} /\ Dangling(disk))
          => (returned = None /\ error.cause \in RefIntegrityCauses)

\* C2: in a CSV or JSON load of known row types, a repeated id within one
\* collection makes the load fail with the duplicate-id error (in CSV at the
\* first row that repeats an id), and a load in which no id repeats within a
\* collection raises no error other than a dangling reference, also when one
\* id is used in all three collections.
C2_DuplicateIds ==
    (FinishedFileLoad /\ KnownTypes(disk)) =>
       /\ Repeats(disk) # {} =>
             /\ error.cause \in DuplicateCauses
             /\ loader = "csv" => idx = Least(Repeats(disk))
       /\ Repeats(disk) = {} => error.cause \in {"none"} \cup RefIntegrityCauses

\* C3: whenever a load ends in an error, and at every point before a load has
\* ended, nothing has been returned to the caller; what is returned is the
\* completed model after its single validation.
C3_AtomicLoad ==
    /\ error # NoError => returned = None
    /\ pc # "done" => returned = None
    /\ returned # None => (returned[1] = model /\ validations = 1 /\ error = NoError)

\* C3 witness: a load that failed after entities had been inserted, with
\* nothing returned
C3_Witness ==
    /\ pc = "done"
    /\ error # NoError
    /\ model # SystemModel
    /\ returned = None

\* two models hold the same entities under the same ids (dict equality)
SameModel(a, b) ==
    /\ {a.buses[i] : i \in 1..Len(a.buses)} = {b.buses[i] : i \in 1..Len(b.buses)}
    /\ {a.lines[i] : i \in 1..Len(a.lines)} = {b.lines[i] : i \in 1..Len(b.lines)}
    /\ {a.transformers[i] : i \in 1..Len(a.transformers)}
          = {b.transformers[i] : i \in 1..Len(b.transformers)}

\* C4: for a topology written both as CSV (complete header) and as JSON, the
\* CSV load and the JSON load either both return structurally equal models
\* or both fail with the same kind of error.
C4_CsvJsonEquivalent ==
    (FinishedFileLoad /\ loader = "csv" /\ Expressible(disk)) =>
       LET j == JsonReader_result(disk)
       IN  \/ /\ returned # None
              /\ j.ret # None
              /\ SameModel(returned[1], j.ret[1])
           \/ /\ returned = None
              /\ j.ret = None
              /\ error.kind = j.err.kind

\* the positions of a load inside each reader
CsvPcs == {"csv_load", "csv_rows", "csv_validate"}

JsonPcs == {"json_load", "json_buses", "json_lines", "json_transformers", "json_validate"}

DssPcs == {"dss_init", "dss_load", "dss_buses", "dss_lines", "dss_transformers",
           "dss_validate"}

\* the call went to reader r and to no other: it is inside r, or has ended
\* after entering r's load
WentTo(r, pcs) ==
    /\ pc \in pcs \cup {"done"}
    /\ loader \in {"none", r}
    /\ pc = "done" =>
          \/ loader = r
          \/ r = "dss" /\ error = Raise("ImportError", "NoOpenDssDirect")

\* C6: once load_system_model has been called, a tag that is csv, json or dss
\* in any letter case has sent the call to the CSV, JSON or network-solver
\* reader respectively, and any other tag has ended the call with the
\* unsupported-format error, no reader entered and the path not opened.
C6_FormatDispatch ==
    pc # "idle" =>
       /\ fmt \in {"csv", "CSV"} => WentTo("csv", CsvPcs)
       /\ fmt \in {"json", "Json"} => WentTo("json", JsonPcs)
       /\ fmt \in {"dss", "DSS"} => WentTo("dss", DssPcs)
       /\ fmt \notin {"csv", "CSV", "json", "Json", "dss", "DSS"} =>
             /\ pc = "done"
             /\ error.cause \in UnsupportedCauses
             /\ loader = "none"
             /\ ~opened
             /\ returned = None

\* C6 witness: the tag "xml" was rejected without a reader or the file
C6_Witness ==
    /\ pc = "done"
    /\ fmt = "xml"
    /\ error.cause \in UnsupportedCauses
    /\ loader = "none"
    /\ ~opened

\* the exceptions SystemModel.validate raises
validate_raises ==
    {Raise("ValueError", c) :
        c \in {"UnknownFromBus", "UnknownToBus", "UnknownPrimaryBus", "UnknownSecondaryBus"}}

\* the exceptions CsvReader raises itself
CsvReader_raises ==
    {Raise("FileNotFoundError", "CsvFileNotFound")} \cup
    {Raise("ValueError", c) :
        c \in {"NoTypeColumn", "UnknownRowType", "MissingBusFields", "DuplicateBusId",
               "MissingLineFields", "DuplicateLineId", "MissingTxFields", "DuplicateTxId"}}

\* the exception load_system_model raises itself
load_system_model_raises == {Raise("ValueError", "UnsupportedFileType")}

RaiseSites == validate_raises \cup CsvReader_raises \cup load_system_model_raises

\* the failure category of a cause
CategoryOf(c) ==
    IF c \in SchemaCauses THEN "schema"
    ELSE IF c \in DuplicateCauses THEN "duplicate"
    ELSE IF c \in RefIntegrityCauses THEN "integrity"
    ELSE IF c \in UnsupportedCauses THEN "unsupported"
    ELSE "other"

\* C10: an error of one of the four categories (schema, duplicate id,
\* referential integrity, unsupported format) that reaches the caller has a
\* kind that no raise site of another of these categories uses.
C10_DistinctKinds ==
    CategoryOf(error.cause) # "other" =>
       \A s \in RaiseSites :
          CategoryOf(s.cause) # CategoryOf(error.cause) => s.kind # error.kind

----------------------------------------------------------------------------
(* DER registry: der_json.py.  Numbers of a DER configuration are given in   *)
(* hundredths: 1.2 is 120.                                                   *)

\* the defaults from_dict applies to an absent REGC field (imax_fault apart)
REGCDefaults ==
    [model |-> "REGC_A", imax |-> 120, r_source_pu |-> 1, x_source_pu |-> 12,
     iq_priority |-> "reactive", kp_pll |-> 2000, ki_pll |-> 20000,
     wmax |-> 200, wmin |-> -200]

\* the defaults from_dict applies to an absent REEC field
REECDefaults ==
    [model |-> "REEC_A", vref_pu |-> 100, qref_pu |-> 0, kqv |-> 750,
     vdip_pu |-> 90, vup_pu |-> 110, iqmax_pu |-> 110, iqmin_pu |-> -110,
     pmax_pu |-> 100, pmin_pu |-> 0, pf_flag |-> 0, pq_flag |-> 1, vq_flag |-> 0]

\* REGCConfig.effective_imax_fault()
effective_imax_fault(regc) ==
    IF regc.imax_fault # None THEN regc.imax_fault[1] ELSE regc.imax

\* the REGCConfig from_dict builds from data.get("regc", {})
REGCConfigOf(regc_data) ==
    [f \in (DOMAIN REGCDefaults) \cup {"imax_fault"} |->
        IF f = "imax_fault" THEN ObjGet(regc_data, "imax_fault")
        ELSE ObjGetOr(regc_data, f, REGCDefaults[f])]

\* the REECConfig from_dict builds from data.get("reec", {})
REECConfigOf(reec_data) ==
    [f \in DOMAIN REECDefaults |-> ObjGetOr(reec_data, f, REECDefaults[f])]

\* the list comprehension over a raw curve: a point per element, a KeyError
\* for the first element that lacks one of the keys (in the order read)
CurveOf(raw, firstKey) ==
    LET bad == {i \in 1..Len(raw) : ~({firstKey, "max_time_s"} \subseteq DOMAIN raw[i])}
    IN  IF bad # {}
        THEN Fail("KeyError",
                  IF firstKey \notin DOMAIN raw[Least(bad)] THEN firstKey ELSE "max_time_s")
        ELSE Ok([i \in 1..Len(raw) |->
                    [k \in {firstKey, "max_time_s"} |-> raw[i][k]]])

\* DER.validate(): the exception it raises, NoError if it returns. Comparing
\* None with a number is a TypeError.
DER_validate(der) ==
    IF der.mva_rating <= 0 THEN Raise("ValueError", "mva_rating")
    ELSE IF der.kv_ll = None THEN Raise("TypeError", "CompareNone")
    ELSE IF der.kv_ll[1] <= 0 THEN Raise("ValueError", "kv_ll")
    ELSE IF der.connection_bus = "" THEN Raise("ValueError", "connection_bus")
    ELSE IF der.regc.imax <= 0 THEN Raise("ValueError", "regc.imax")
    ELSE IF der.reec.iqmax_pu < 0 THEN Raise("ValueError", "reec.iqmax_pu")
    ELSE NoError

\* data.get("power_factor"): the key may be present with the value None
PowerFactorOf(data) == IF "power_factor" \in DOMAIN data THEN data["power_factor"] ELSE None

\* from_dict up to the store: the validated DER built from data, or the exception
DERStorage_build(der_id, data) ==
    LET keyErr  == FirstMissingKey(data, <<"der_type", "connection_bus", "mva_rating">>)
        rt_data == ObjGetOr(data, "ride_through", EmptyDict)
        vrt     == CurveOf(ObjGetOr(rt_data, "vrt_curve", <<>>), "voltage_pu")
        frt     == CurveOf(ObjGetOr(rt_data, "frt_curve", <<>>), "frequency_hz")
        der     == [der_id         |-> der_id,
                    der_type       |-> data["der_type"],
                    connection_bus |-> data["connection_bus"],
                    mva_rating     |-> data["mva_rating"],
                    kv_ll          |-> IF "kv" \in DOMAIN data THEN Some(data["kv"])
                                       ELSE ObjGet(data, "kv_ll"),
                    pref_MW        |-> ObjGetOr(data, "pref_MW", 0),
                    qref_MVAR      |-> ObjGetOr(data, "qref_MVAR", 0),
                    power_factor   |-> PowerFactorOf(data),
                    regc           |-> REGCConfigOf(ObjGetOr(data, "regc", EmptyDict)),
                    reec           |-> REECConfigOf(ObjGetOr(data, "reec", EmptyDict)),
                    ride_through   |-> [vrt_curve |-> vrt.val, frt_curve |-> frt.val],
                    metadata       |-> ObjGetOr(data, "metadata", EmptyDict)]
    IN  IF keyErr # NoError THEN [val |-> None, err |-> keyErr]
        ELSE IF vrt.err # NoError THEN Propagate(vrt)
        ELSE IF frt.err # NoError THEN Propagate(frt)
        ELSE IF DER_validate(der) # NoError THEN [val |-> None, err |-> DER_validate(der)]
        ELSE Ok(der)

\* a store that keeps the entry already under the key
StoreIfAbsent(reg, der_id, der) ==
    IF der_id \in DOMAIN reg THEN reg ELSE Put(reg, der_id, der)

\* self._ders[der_id] = der
DERStorage_store(reg, der_id, der) == Put(reg, der_id, der)

\* DER.to_sim_payload()
to_sim_payload(der) ==
    [der_id         |-> der.der_id,
     type           |-> der.der_type,
     connection_bus |-> der.connection_bus,
     mva_rating     |-> der.mva_rating,
     kv_ll          |-> der.kv_ll[1],
     pref_MW        |-> der.pref_MW,
     qref_MVAR      |-> der.qref_MVAR,
     power_factor   |-> der.power_factor,
     regc           |-> [f \in DOMAIN der.regc |->
                            IF f = "imax_fault" THEN effective_imax_fault(der.regc)
                            ELSE der.regc[f]],
     reec           |-> der.reec,
     ride_through   |-> [vrt_curve |-> der.ride_through.vrt_curve,
                         frt_curve |-> der.ride_through.frt_curve]]

\* the ids callers register DERs under
DerIds == {"d1", "d2"}

\* a complete, valid source
BaseSource ==
    [der_type |-> "PV", connection_bus |-> "B1", mva_rating |-> 100, kv |-> 416,
     pref_MW |-> 50]

\* source d without key k
Without(d, k) == [x \in (DOMAIN d) \ {k} |-> d[x]]

VrtPoint == [voltage_pu |-> 50, max_time_s |-> 100]

FrtPoint == [frequency_hz |-> 5700, max_time_s |-> 100]

\* the structured sources callers insert
DerSources ==
    { BaseSource,
      Put(Without(BaseSource, "kv"), "kv_ll", 416),
      Without(BaseSource, "kv"),
      Put(BaseSource, "mva_rating", 0),
      Put(Put(BaseSource, "kv", 0), "kv_ll", 416),
      Put(BaseSource, "connection_bus", ""),
      Put(BaseSource, "regc", [imax |-> 0]),
      Put(BaseSource, "reec", [iqmax_pu |-> -10]),
      Put(Put(Without(BaseSource, "pref_MW"), "reec", [iqmax_pu |-> 0]),
          "der_type", "FUELCELL"),
      Put(BaseSource, "ride_through", [vrt_curve |-> <<[voltage_pu |-> 50]>>]),
      Without(BaseSource, "der_type") }
    \cup
    { Put(Put(BaseSource, "regc", [imax |-> 200, imax_fault |-> 300]), "ride_through",
          [vrt_curve |-> [i \in 1..n |-> VrtPoint], frt_curve |-> <<FrtPoint>>]) :
        n \in 1..MaxCurve }

\* the state of the other components, which the registry does not touch
othersOfDer == <<loadVars, ppeVars, arcVars>>

\* a from_dict that clears the key before it builds the DER
DERStorage_after_clearing(reg, der_id, built) ==
    IF built.err # NoError THEN Without(reg, der_id)
    ELSE DERStorage_store(reg, der_id, built.val)

\* the registry after from_dict: the store is reached only when nothing was
\* raised on the way
DERStorage_after(reg, der_id, built) ==
    IF built.err # NoError THEN reg
    ELSE DERStorage_store(reg, der_id, built.val)

\* DERStorage.from_dict(der_id, data): build and validate, then store and return
DERStorage_from_dict ==
    /\ \E der_id \in DerIds :
       \E data \in DerSources \cup {payload[i].data : i \in 1..Len(payload)} :
          LET built == DERStorage_build(der_id, data)
          IN  /\ ders' = DERStorage_after(ders, der_id, built)
              /\ lastCall' = [op |-> "from_dict", der_id |-> der_id, data |-> data,
                              had |-> der_id \in DOMAIN ders,
                              err |-> built.err,
                              ret |-> IF built.err # NoError THEN None ELSE Some(built.val)]
    /\ UNCHANGED payload
    /\ UNCHANGED othersOfDer

\* a lookup that answers None for a key that is not there
DERStorage_lookup_or_none(reg, der_id) ==
    IF der_id \in DOMAIN reg THEN Ok(Some(reg[der_id])) ELSE Ok(None)

\* self._ders[der_id]: the stored DER, a KeyError when there is none
DERStorage_lookup(reg, der_id) ==
    IF der_id \in DOMAIN reg THEN Ok(Some(reg[der_id])) ELSE Fail("KeyError", "der_id")

\* DERStorage.get(der_id)
DERStorage_get ==
    /\ \E der_id \in DerIds :
          LET r == DERStorage_lookup(ders, der_id)
          IN  lastCall' = [op |-> "get", der_id |-> der_id, err |-> r.err, ret |-> r.val]
    /\ UNCHANGED <<ders, payload>>
    /\ UNCHANGED othersOfDer

\* get(der_id).to_sim_payload(): the payload exported for a stored DER
DER_to_sim_payload ==
    /\ \E der_id \in DOMAIN ders :
          /\ payload' = Some([of |-> ders[der_id], data |-> to_sim_payload(ders[der_id])])
          /\ lastCall' = [op |-> "to_sim_payload", der_id |-> der_id]
    /\ UNCHANGED ders
    /\ UNCHANGED othersOfDer

DerInit ==
    /\ disk = <<>>
    /\ LoadIdle
    /\ DerIdle
    /\ PpeIdle
    /\ ArcIdle

DerNext ==
    \/ DERStorage_from_dict
    \/ DERStorage_get
    \/ DER_to_sim_payload

SpecDER == DerInit /\ [][DerNext]_vars

----------------------------------------------------------------------------
(* Properties of the DER registry *)

\* C7: a successful from_dict(der_id, source) leaves under der_id exactly the
\* DER it returned, whether or not the key was occupied, and every other entry
\* as it was; no other call changes the registry; get(der_id) on a stored key
\* returns the stored DER.
C7_InsertOverwrites ==
    [][ LET c == lastCall'
        IN  /\ (c.op = "from_dict" /\ c.err = NoError) =>
                  /\ DOMAIN ders' = (DOMAIN ders) \cup {c.der_id}
                  /\ ders'[c.der_id] = c.ret[1]
                  /\ \A k \in (DOMAIN ders) \ {c.der_id} : ders'[k] = ders[k]
            /\ ~(c.op = "from_dict" /\ c.err = NoError) => ders' = ders
            /\ (c.op = "get" /\ c.der_id \in DOMAIN ders) =>
                  (c.err = NoError /\ c.ret = Some(ders[c.der_id]))
      ]_vars

\* C7 witness: an insert under an occupied key succeeded, the registry holds
\* the DER it returned, and the entry under the other key is still there
C7_Witness ==
    /\ lastCall.op = "from_dict"
    /\ lastCall.err = NoError
    /\ lastCall.had
    /\ ders[lastCall.der_id] = lastCall.ret[1]
    /\ DOMAIN ders = DerIds
    /\ \E k \in DerIds : ders[k] # ders[lastCall.der_id]

\* the exceptions DER.validate raises for an invalid configuration
InvalidConfigCauses == {"mva_rating", "kv_ll", "connection_bus", "regc.imax", "reec.iqmax_pu"}

\* a stored DER is within the numeric ranges
ValidDer(d) ==
    /\ d.mva_rating > 0
    /\ d.kv_ll # None
    /\ d.kv_ll[1] > 0
    /\ d.connection_bus # ""
    /\ d.regc.imax > 0
    /\ d.reec.iqmax_pu >= 0

\* a source that has the three required keys and only complete curve points
CompleteSource(data) ==
    /\ {"der_type", "connection_bus", "mva_rating"} \subseteq DOMAIN data
    /\ LET rt == ObjGetOr(data, "ride_through", EmptyDict)
           v  == ObjGetOr(rt, "vrt_curve", <<>>)
           f  == ObjGetOr(rt, "frt_curve", <<>>)
       IN  /\ \A i \in 1..Len(v) : {"voltage_pu", "max_time_s"} \subseteq DOMAIN v[i]
           /\ \A i \in 1..Len(f) : {"frequency_hz", "max_time_s"} \subseteq DOMAIN f[i]

\* a complete source that violates one of the ranges, or gives no kv/kv_ll
ViolatingSource(data) ==
    \/ data["mva_rating"] <= 0
    \/ {"kv", "kv_ll"} \cap DOMAIN data = {}
    \/ "kv" \in DOMAIN data /\ data["kv"] <= 0
    \/ "kv" \notin DOMAIN data /\ "kv_ll" \in DOMAIN data /\ data["kv_ll"] <= 0
    \/ data["connection_bus"] = ""
    \/ ObjGetOr(ObjGetOr(data, "regc", EmptyDict), "imax", 1) <= 0
    \/ ObjGetOr(ObjGetOr(data, "reec", EmptyDict), "iqmax_pu", 0) < 0

\* C8: every stored DER has mva_rating > 0, kv_ll > 0, a non-empty
\* connection_bus, regc.imax > 0 and reec.iqmax_pu >= 0, and an insert whose
\* source violates one of these (a source without kv and kv_ll included) fails
\* with the invalid-configuration error of validate.
C8_ValidatedRegistry ==
    /\ \A k \in DOMAIN ders : ValidDer(ders[k])
    /\ (/\ lastCall.op = "from_dict"
        /\ CompleteSource(lastCall.data)
        /\ ViolatingSource(lastCall.data))
          => (lastCall.err.kind = "ValueError" /\ lastCall.err.cause \in InvalidConfigCauses)

\* C9: feeding the payload exported for a stored DER d back to from_dict
\* succeeds and yields a DER with d's pref_MW, d's regc.imax and curves of the
\* lengths of d's.
C9_RoundTrip ==
    (lastCall.op = "from_dict" /\ payload # None /\ lastCall.data = payload[1].data) =>
       /\ lastCall.err = NoError
       /\ lastCall.ret[1].pref_MW = payload[1].of.pref_MW
       /\ lastCall.ret[1].regc.imax = payload[1].of.regc.imax
       /\ Len(lastCall.ret[1].ride_through.vrt_curve)
             = Len(payload[1].of.ride_through.vrt_curve)
       /\ Len(lastCall.ret[1].ride_through.frt_curve)
             = Len(payload[1].of.ride_through.frt_curve)

----------------------------------------------------------------------------
(* PPE classification: PPE_update.py.  Energies are in tenths of cal/cm^2:   *)
(* the limits 1.2, 4, 8, 25 and 40 are 12, 40, 80, 250 and 400.              *)

\* a ladder whose first limit is exclusive
ppe_category_exclusive(energy_cal_cm2) ==
    IF energy_cal_cm2 < 12 THEN "Below arc-flash threshold (No PPE)"
    ELSE IF energy_cal_cm2 <= 40 THEN "PPE Category 1"
    ELSE IF energy_cal_cm2 <= 80 THEN "PPE Category 2"
    ELSE IF energy_cal_cm2 <= 250 THEN "PPE Category 3"
    ELSE IF energy_cal_cm2 <= 400 THEN "PPE Category 4"
    ELSE "Above PPE Category 4 (Dangerous)"

ppe_category(energy_cal_cm2) ==
    IF energy_cal_cm2 <= 12 THEN "Below arc-flash threshold (No PPE)"
    ELSE IF energy_cal_cm2 <= 40 THEN "PPE Category 1"
    ELSE IF energy_cal_cm2 <= 80 THEN "PPE Category 2"
    ELSE IF energy_cal_cm2 <= 250 THEN "PPE Category 3"
    ELSE IF energy_cal_cm2 <= 400 THEN "PPE Category 4"
    ELSE "Above PPE Category 4 (Dangerous)"

\* the energies classified
Energies == (-5)..MaxEnergy

\* the state of the other components, which the classifier does not touch
othersOfPpe == <<loadVars, derVars, arcVars>>

\* a call of ppe_category
Classify ==
    /\ \E e \in Energies :
          /\ energy' = e
          /\ label' = Some(ppe_category(e))
    /\ UNCHANGED othersOfPpe

PpeInit ==
    /\ disk = <<>>
    /\ LoadIdle
    /\ DerIdle
    /\ PpeIdle
    /\ ArcIdle

PpeNext == Classify

SpecPPE == PpeInit /\ [][PpeNext]_vars

\* the six labels in ascending order
LabelOrder ==
    << "Below arc-flash threshold (No PPE)", "PPE Category 1", "PPE Category 2",
       "PPE Category 3", "PPE Category 4", "Above PPE Category 4 (Dangerous)" >>

\* the place of a label in that order
RankOf(l) == CHOOSE i \in 1..Len(LabelOrder) : LabelOrder[i] = l

\* C5: the label returned for an energy is the one of the band the energy
\* lies in (upper limits 1.2, 4, 8, 25, 40 inclusive), and no smaller energy
\* gets a higher label nor a larger energy a lower one.
C5_PpeLadder ==
    label # None =>
       /\ label[1] = LabelOrder[ IF energy <= 12 THEN 1
                                 ELSE IF energy <= 40 THEN 2
                                 ELSE IF energy <= 80 THEN 3
                                 ELSE IF energy <= 250 THEN 4
                                 ELSE IF energy <= 400 THEN 5
                                 ELSE 6 ]
       /\ \A e \in Energies :
             /\ e <= energy => RankOf(ppe_category(e)) <= RankOf(label[1])
             /\ e >= energy => RankOf(ppe_category(e)) >= RankOf(label[1])

\* C5 witness: an energy on a limit got the label below the limit
C5_Witness ==
    /\ label # None
    /\ energy = 400
    /\ label[1] = "PPE Category 4"

----------------------------------------------------------------------------
(* The arc-flash calculation engine (PPE_update.py) *)

\* np.log10 of the integers the engine meets, to five decimals
Log10Table ==
    1 :> 0 @@ 4 :> 60206 @@ 8 :> 90309 @@ 10 :> 100000 @@ 12 :> 107918 @@
    15 :> 117609 @@ 25 :> 139794 @@ 40 :> 160206 @@ 50 :> 169897 @@
    80 :> 190309 @@ 200 :> 230103 @@ 250 :> 239794 @@ 400 :> 260206 @@
    457 :> 265992 @@ 480 :> 268124 @@
    500 :> 269897 @@ 610 :> 278533 @@ 910 :> 295904 @@ 1000 :> 300000 @@
    4160 :> 361909 @@ 13800 :> 413988

\* the positive real n
Num(n) == [lg |-> Log10Table[n]]

\* a * b and a / b
Times(a, b) == [lg |-> a.lg + b.lg]

Ratio(a, b) == [lg |-> a.lg - b.lg]

\* a <= b
Le(a, b) == a.lg <= b.lg

\* np.log10(a)
log10(a) == a.lg

\* 10 ** x
Pow10(x) == [lg |-> x]

\* a number given in thousandths (0.08 s is 80, 4.16 kV is 4160)
Milli(n) == Ratio(Num(n), Num(1000))

\* the coefficient triples, k1 in units of 10^-5, k2 of 10^-3, k3 of 10^-4
COEFFS ==
    [VCB |-> [k1 |-> -15300, k2 |-> 662, k3 |-> 966],
     HCB |-> [k1 |-> -15300, k2 |-> 662, k3 |-> 966],
     VOA |-> [k1 |-> -79200, k2 |-> 662, k3 |-> 966],
     HOA |-> [k1 |-> -79200, k2 |-> 662, k3 |-> 966]]

\* an unknown enclosure computes with the first triple of the table
ieee1584_arcing_current_defaulting(I_bf, V_kV, gap_mm, enclosure) ==
    LET k == IF enclosure \in DOMAIN COEFFS THEN COEFFS[enclosure] ELSE COEFFS["VCB"]
    IN  Ok(Pow10(k.k1 + (k.k2 * log10(I_bf)) \div 1000
                 + (k.k3 * log10(Times(V_kV, Num(1000)))) \div 10000
                 + 402 * gap_mm))

\* the voltage taken in kV where the formula wants volts
ieee1584_arcing_current_in_kV(I_bf, V_kV, gap_mm, enclosure) ==
    IF enclosure \notin DOMAIN COEFFS THEN Fail("KeyError", "COEFFS")
    ELSE LET k == COEFFS[enclosure]
         IN  Ok(Pow10(k.k1 + (k.k2 * log10(I_bf)) \div 1000
                      + (k.k3 * log10(V_kV)) \div 10000
                      + 402 * gap_mm))

\* ieee1584_arcing_current: the current, or the KeyError of COEFFS[enclosure]
ieee1584_arcing_current(I_bf, V_kV, gap_mm, enclosure) ==
    IF enclosure \notin DOMAIN COEFFS THEN Fail("KeyError", "COEFFS")
    ELSE LET k == COEFFS[enclosure]
         IN  Ok(Pow10(k.k1 + (k.k2 * log10(I_bf)) \div 1000
                      + (k.k3 * log10(Times(V_kV, Num(1000)))) \div 10000
                      + 402 * gap_mm))

\* ieee1584_incident_energy
ieee1584_incident_energy(Ia, V_kV, gap_mm, clearing_time_s, working_distance_mm) ==
    LET En == Pow10(-55500 + (1081 * log10(Ia)) \div 1000 + 110 * gap_mm)
        Cf == IF Le(Num(1), V_kV) THEN Num(1) ELSE Ratio(Num(15), Num(10))
        d  == Ratio(Num(610), working_distance_mm)
    IN  Times(Times(Times(Cf, En), Ratio(clearing_time_s, Milli(200))), Times(d, d))

\* an energy as ppe_category takes it, in tenths of cal/cm^2: rounded up to
\* the next limit of the ladder (ppe_category compares it with the limits only)
Tenths(E) ==
    LET above == {t \in {12, 40, 80, 250, 400} : Le(E, Ratio(Num(t), Num(10)))}
    IN  IF above = {} THEN 401 ELSE Least(above)

PPE_LIMITS ==
    [c \in {"PPE Category 1", "PPE Category 2", "PPE Category 3", "PPE Category 4"} |->
        CASE c = "PPE Category 1" -> 4
          [] c = "PPE Category 2" -> 8
          [] c = "PPE Category 3" -> 25
          [] c = "PPE Category 4" -> 40]

\* the values the GUI stores in the module globals
ParamChoices ==
    [ARC_GAP_MM          |-> {0, 32, 102},
     ARC_ENCLOSURE       |-> {"VCB", "HCB", "VOA", "HOA", "vcb", "BOX"},
     WORKING_DISTANCE_MM |-> {457, 910},
     IS_GROUNDED         |-> {TRUE},
     CLEARING_TIME_S     |-> {80, 500}]

\* the buses analysed and what the solver reports for a bus: kVBase in volts,
\* Isc in kA
ArcBuses == {"B1", "B2"}

SolverVolts == {480, 4160, 13800}

SolverKA == {1, 10, 50}

\* the state of the other components, which the analysis does not touch
othersOfArc == <<loadVars, derVars, ppeVars>>

\* no call running: the locals of the last call are gone
NoRun ==
    [pc |-> "idle", bus_name |-> None, V_kV |-> None, I_bf |-> None,
     Ia |-> None, E |-> None, ppe |-> None, printed |-> None,
     steps |-> <<>>, err |-> NoError]

\* the GUI assigns one of the module globals
SetParam ==
    /\ arc.pc \in {"idle", "done"}
    /\ \E g \in DOMAIN ParamChoices : \E v \in ParamChoices[g] :
          params' = [params EXCEPT ![g] = Some(v)]
    /\ arc' = NoRun
    /\ UNCHANGED othersOfArc

\* the asserts without the one on the clearing time
FailedAssertButClearingTime ==
    IF params.ARC_GAP_MM = None THEN "ARC_GAP_MM"
    ELSE IF params.ARC_ENCLOSURE = None THEN "ARC_ENCLOSURE"
    ELSE IF params.WORKING_DISTANCE_MM = None THEN "WORKING_DISTANCE_MM"
    ELSE ""

\* the first of the four asserts that fails, "" if all hold
FailedAssert ==
    IF params.ARC_GAP_MM = None THEN "ARC_GAP_MM"
    ELSE IF params.ARC_ENCLOSURE = None THEN "ARC_ENCLOSURE"
    ELSE IF params.WORKING_DISTANCE_MM = None THEN "WORKING_DISTANCE_MM"
    ELSE IF params.CLEARING_TIME_S = None THEN "CLEARING_TIME_S"
    ELSE ""


\* run_arcflash_analysis(bus_name) is called: the asserts
run_arcflash_analysis ==
    /\ arc.pc \in {"idle", "done"}
    /\ \E b \in ArcBuses :
          arc' = IF FailedAssert # ""
                 THEN [NoRun EXCEPT !.pc = "done", !.bus_name = Some(b),
                                    !.err = Raise("AssertionError", FailedAssert)]
                 ELSE [NoRun EXCEPT !.pc = "extract", !.bus_name = Some(b)]
    /\ UNCHANGED params
    /\ UNCHANGED othersOfArc

\* V_kV, I_bf = extract_arcflash_inputs(bus_name)
extract_arcflash_inputs ==
    /\ arc.pc = "extract"
    /\ \E v \in SolverVolts, i \in SolverKA :
          arc' = [arc EXCEPT !.pc = "arcing", !.V_kV = Some(Milli(v)),
                             !.I_bf = Some(Num(i)),
                             !.steps = Append(@, "solver")]
    /\ UNCHANGED params
    /\ UNCHANGED othersOfArc

\* Ia = ieee1584_arcing_current(I_bf, V_kV, ARC_GAP_MM, ARC_ENCLOSURE)
Run_arcing_current ==
    /\ arc.pc = "arcing"
    /\ LET r == ieee1584_arcing_current(arc.I_bf[1], arc.V_kV[1],
                                        params.ARC_GAP_MM[1], params.ARC_ENCLOSURE[1])
       IN  arc' = IF r.err # NoError
                  THEN [arc EXCEPT !.pc = "done", !.err = r.err,
                                   !.steps = Append(@, "arcing_current")]
                  ELSE [arc EXCEPT !.pc = "energy", !.Ia = Some(r.val),
                                   !.steps = Append(@, "arcing_current")]
    /\ UNCHANGED params
    /\ UNCHANGED othersOfArc

\* E = ieee1584_incident_energy(Ia, V_kV, ARC_GAP_MM, CLEARING_TIME_S, WORKING_DISTANCE_MM)
Run_incident_energy ==
    /\ arc.pc = "energy"
    /\ arc' = [arc EXCEPT !.pc = "ppe",
                          !.E = Some(ieee1584_incident_energy(
                                        arc.Ia[1], arc.V_kV[1], params.ARC_GAP_MM[1],
                                        Milli(params.CLEARING_TIME_S[1]),
                                        Num(params.WORKING_DISTANCE_MM[1]))),
                          !.steps = Append(@, "incident_energy")]
    /\ UNCHANGED params
    /\ UNCHANGED othersOfArc

\* ppe = ppe_category(E)
Run_ppe_category ==
    /\ arc.pc = "ppe"
    /\ arc' = [arc EXCEPT !.pc = "print",
                          !.ppe = Some(ppe_category(Tenths(arc.E[1]))),
                          !.steps = Append(@, "ppe_category")]
    /\ UNCHANGED params
    /\ UNCHANGED othersOfArc

\* the print calls: the results handed to the user
Run_print ==
    /\ arc.pc = "print"
    /\ arc' = [arc EXCEPT !.pc = IF arc.ppe[1] \in DOMAIN PPE_LIMITS
                                 THEN "plot" ELSE "done",
                          !.printed = Some([bus |-> arc.bus_name[1], V_kV |-> arc.V_kV[1],
                                            I_bf |-> arc.I_bf[1], Ia |-> arc.Ia[1],
                                            E |-> arc.E[1], category |-> arc.ppe[1]]),
                          !.steps = Append(@, "print")]
    /\ UNCHANGED params
    /\ UNCHANGED othersOfArc

\* if ppe in PPE_LIMITS: plot_arcflash_ppe(...)
Run_plot ==
    /\ arc.pc = "plot"
    /\ arc' = [arc EXCEPT !.pc = "done", !.steps = Append(@, "plot")]
    /\ UNCHANGED params
    /\ UNCHANGED othersOfArc

ArcInit ==
    /\ disk = <<>>
    /\ LoadIdle
    /\ DerIdle
    /\ PpeIdle
    /\ ArcIdle

ArcNext ==
    \/ SetParam
    \/ run_arcflash_analysis
    \/ extract_arcflash_inputs
    \/ Run_arcing_current
    \/ Run_incident_energy
    \/ Run_ppe_category
    \/ Run_print
    \/ Run_plot

SpecArc == ArcInit /\ [][ArcNext]_vars

----------------------------------------------------------------------------
(* Properties of the arc-flash analysis *)

\* the four fault parameters the analysis needs
FaultParams == {"ARC_GAP_MM", "ARC_ENCLOSURE", "WORKING_DISTANCE_MM", "CLEARING_TIME_S"}

AnyUnset == \E g \in FaultParams : params[g] = None

\* the steps of a run in the order the spec gives them (the plot follows)
StepOrder ==
    <<"solver", "arcing_current", "incident_energy", "ppe_category", "print", "plot">>

\* C11: a run called while one of gap, enclosure, working distance, clearing
\* time is unset ends at once with the failed assertion: the solver was not
\* queried, no Ia, E, category or result exists and the parameter is still
\* unset; a run with all four set takes its steps in the order solver query,
\* arcing current, incident energy, PPE category, result record.
C11_FailFastThenOrder ==
    arc.pc # "idle" =>
       /\ AnyUnset =>
             /\ arc.pc = "done"
             /\ arc.err.kind = "AssertionError"
             /\ arc.err.cause \in FaultParams /\ params[arc.err.cause] = None
             /\ arc.steps = <<>>
             /\ arc.V_kV = None /\ arc.I_bf = None /\ arc.Ia = None
             /\ arc.E = None /\ arc.ppe = None /\ arc.printed = None
       /\ ~AnyUnset =>
             /\ arc.err.kind # "AssertionError"
             /\ arc.steps = SubSeq(StepOrder, 1, Len(arc.steps))
             /\ (arc.V_kV # None /\ arc.I_bf # None) <=> Len(arc.steps) >= 1
             /\ arc.Ia # None <=> (Len(arc.steps) >= 2 /\ arc.err = NoError)
             /\ arc.E # None <=> Len(arc.steps) >= 3
             /\ arc.ppe # None <=> Len(arc.steps) >= 4
             /\ arc.printed # None <=> Len(arc.steps) >= 5
             /\ (arc.pc = "done" /\ arc.err = NoError) => Len(arc.steps) >= 5

\* C11 witness: a run refused for the clearing time alone
C11_Witness ==
    /\ arc.pc = "done"
    /\ arc.err = Raise("AssertionError", "CLEARING_TIME_S")
    /\ params.ARC_GAP_MM # None
    /\ params.ARC_ENCLOSURE # None
    /\ params.WORKING_DISTANCE_MM # None

\* the current the formula gives with first coefficient k1 (in 10^-5)
FormulaCurrent(k1, I_bf, V_kV, gap_mm) ==
    Pow10(k1 + (662 * log10(I_bf)) \div 1000
          + (966 * (log10(V_kV) + 300000)) \div 10000 + 402 * gap_mm)

\* C12: once the arcing-current step of a run has been taken, an enclosure
\* VCB or HCB gave the current of the triple (-0.153, 0.662, 0.0966), VOA or
\* HOA that of (-0.792, 0.662, 0.0966), and any other value, "vcb" included,
\* ended the run with the failed lookup of the enclosure and no current.
C12_ClosedEnclosureSet ==
    Len(arc.steps) >= 2 =>
       LET enclosure == params.ARC_ENCLOSURE[1]
       IN  /\ enclosure \in {"VCB", "HCB"} =>
                 /\ arc.err = NoError
                 /\ arc.Ia = Some(FormulaCurrent(-15300, arc.I_bf[1], arc.V_kV[1],
                                                 params.ARC_GAP_MM[1]))
           /\ enclosure \in {"VOA", "HOA"} =>
                 /\ arc.err = NoError
                 /\ arc.Ia = Some(FormulaCurrent(-79200, arc.I_bf[1], arc.V_kV[1],
                                                 params.ARC_GAP_MM[1]))
           /\ enclosure \notin {"VCB", "HCB", "VOA", "HOA"} =>
                 /\ arc.err = Raise("KeyError", "COEFFS")
                 /\ arc.pc = "done"
                 /\ arc.Ia = None /\ arc.E = None /\ arc.ppe = None
                 /\ arc.printed = None

\* C12 witness: the lower-case enclosure was refused
C12_Witness ==
    /\ Len(arc.steps) >= 2
    /\ params.ARC_ENCLOSURE = Some("vcb")
    /\ arc.err = Raise("KeyError", "COEFFS")

\* C13: every get(der_id) returns the DER stored under der_id when the key is
\* in the registry and fails with the lookup's KeyError, returning nothing,
\* when it is not; the registry is the same after the call as before.
C13_GetOrNotFound ==
    [][ LET c == lastCall'
        IN  c.op = "get" =>
               /\ ders' = ders
               /\ c.der_id \in DOMAIN ders =>
                     (c.err = NoError /\ c.ret = Some(ders[c.der_id]))
               /\ c.der_id \notin DOMAIN ders =>
                     (c.err = Raise("KeyError", "der_id") /\ c.ret = None)
      ]_vars

\* C13 witness: a get missed under one key while the other key holds a DER
C13_Witness ==
    /\ lastCall.op = "get"
    /\ lastCall.err = Raise("KeyError", "der_id")
    /\ lastCall.der_id = "d1"
    /\ DOMAIN ders = {"d2"}

\* the der_type values of the closed set: PV, battery storage, wind, generic,
\* under the names the spec and the code's comment give them
ClosedDerTypes ==
    {"PV", "BESS", "WIND", "GENERIC", "battery-storage", "wind", "generic"}

\* C14 as stated: every DER held in the registry has a der_type of the closed set.
C14_ClosedDerTypes ==
    \A k \in DOMAIN ders : ders[k].der_type \in ClosedDerTypes

\* C14 as amended: the registry does not check der_type. After a from_dict
\* that succeeded the DER under der_id has the der_type its source gave,
\* whatever string that is; a from_dict whose source has no der_type fails
\* and stores nothing under a key that was free.
C14_DerTypeAsGiven ==
    lastCall.op = "from_dict" =>
       /\ lastCall.err = NoError =>
             /\ lastCall.der_id \in DOMAIN ders
             /\ ders[lastCall.der_id].der_type = lastCall.data.der_type
       /\ "der_type" \notin DOMAIN lastCall.data =>
             /\ lastCall.err = Raise("KeyError", "der_type")
             /\ ~lastCall.had => lastCall.der_id \notin DOMAIN ders

\* C14 witness: a DER of a type outside the closed set is in the registry
C14_Witness ==
    /\ lastCall.op = "from_dict"
    /\ lastCall.err = NoError
    /\ lastCall.data.der_type = "FUELCELL"
    /\ ders[lastCall.der_id].der_type = "FUELCELL"

\* C15 as stated: the arcing current a run computed is at most the bolted
\* fault current the solver reported.
C15_ArcingAtMostBolted ==
    arc.Ia # None => Le(arc.Ia[1], arc.I_bf[1])

\* C15 as amended: the arcing current is at most the bolted fault current
\* exactly when k1 + 0.0966*log10(V_kV*1000) + 0.00402*gap_mm is at most
\* 0.338*log10(I_bf), and exceeds it otherwise (both sides in units of 10^-9).
C15_ArcingVersusBolted ==
    arc.Ia # None =>
       LET k1 == IF params.ARC_ENCLOSURE[1] \in {"VCB", "HCB"} THEN -15300 ELSE -79200
           lv == log10(arc.V_kV[1]) + 300000
       IN  Le(arc.Ia[1], arc.I_bf[1])
              <=> 10000 * (k1 + 402 * params.ARC_GAP_MM[1]) + 966 * lv
                     <= 3380 * log10(arc.I_bf[1])

\* C15 witness: at 1 kA, 4.16 kV, 32 mm, VCB the arcing current is above the
\* bolted fault current
C15_Witness ==
    /\ arc.Ia # None
    /\ arc.I_bf = Some(Num(1))
    /\ arc.V_kV = Some(Milli(4160))
    /\ params.ARC_GAP_MM = Some(32)
    /\ params.ARC_ENCLOSURE = Some("VCB")
    /\ ~Le(arc.Ia[1], arc.I_bf[1])

\* some line or transformer row of t precedes a bus row it names
RefBeforeBus(t) ==
    \E i \in 1..Len(t) : \E j \in (i + 1)..Len(t) :
       t[j].type = "bus" /\ t[j].bus_id \in RefsOf(t[i])

\* C16: validate runs at most once in a load, never while records are still
\* being consumed and always before a model is returned; and a CSV file of
\* known row types without repeated ids whose references all name buses of the
\* file loads successfully also when a line or transformer row precedes the
\* bus rows it names.
C16_ValidateOnceAtEnd ==
    /\ validations <= 1
    /\ pc # "done" => validations = 0
    /\ returned # None => validations = 1
    /\ (/\ FinishedFileLoad /\ loader = "csv"
        /\ KnownTypes(disk) /\ Repeats(disk) = {} /\ ~Dangling(disk)
        /\ RefBeforeBus(disk))
          => (error = NoError /\ returned # None)

\* the required fields of a row type
RequiredOf(ty) ==
    IF ty = "bus" THEN REQUIRED_BUS_FIELDS
    ELSE IF ty = "line" THEN REQUIRED_LINE_FIELDS
    ELSE REQUIRED_TX_FIELDS

\* the error a row of type ty raises when a required field is missing
MissingCauseOf(ty) ==
    IF ty = "bus" THEN "MissingBusFields"
    ELSE IF ty = "line" THEN "MissingLineFields"
    ELSE "MissingTxFields"

\* the required fields record r lacks in a CSV file of header h: the column is
\* not in the header or the cell is blank
MissingIn(r, h) ==
    IF r.type \notin EntityTypes THEN {}
    ELSE {c \in RequiredOf(r.type) : c \notin h \/ CellText(r, c) = ""}

\* C17: in a finished CSV load of rows of known types, the first bus, line or
\* transformer row that lacks a required field (no such column, or a blank
\* cell), when the rows before it are untyped rows and transformer rows
\* without a repeated id, ends the load at that row with the
\* missing-fields error of its type, nothing returned and the row's entity not
\* inserted; when no row lacks a required field the load does not end with a
\* missing-fields error.
C17_RequiredFields ==
    (/\ pc = "done" /\ loader = "csv" /\ opened
     /\ header # None /\ "type" \in header[1]
     /\ KnownTypes(disk)) =>
       LET bad == {i \in 1..Len(disk) : MissingIn(disk[i], header[1]) # {}}
       IN  /\ (/\ bad # {}
                /\ Repeats(SubSeq(disk, 1, Least(bad) - 1)) = {}
                /\ \A i \in 1..(Least(bad) - 1) : disk[i].type \in {"transformer", ""}) =>
                 /\ error = Raise("ValueError", MissingCauseOf(disk[Least(bad)].type))
                 /\ returned = None
                 /\ idx = Least(bad)
                 /\ Len(model.buses) + Len(model.lines) + Len(model.transformers)
                       < Cardinality({i \in 1..Least(bad) : disk[i].type \in EntityTypes})
           /\ bad = {} =>
                 error.cause \notin {"MissingBusFields", "MissingLineFields", "MissingTxFields"}

\* the entity a record describes: its fields, optional ones None when not given
EntityOf(r) == [f \in (DOMAIN r) \ {"type"} |-> r[f]]

\* the entities of the records of type ty in topology t
EntitiesOf(t, ty) == {EntityOf(t[i]) : i \in {j \in 1..Len(t) : t[j].type = ty}}

\* the elements of a sequence
Range(s) == {s[i] : i \in 1..Len(s)}

\* C18: a finished CSV or JSON load of bus, line and transformer records that
\* carry all required fields, repeat no id and name only buses of the input
\* returned a model that holds exactly the entities the records describe, each
\* optional field with the value given or None where none was given.
C18_LoadsWhatIsGiven ==
    (/\ FinishedFileLoad
     /\ Expressible(disk)
     /\ \A i \in 1..Len(disk) : MissingIn(disk[i], FullHeader) = {}
     /\ Repeats(disk) = {}
     /\ ~Dangling(disk)) =>
       /\ error = NoError
       /\ returned # None
       /\ Range(returned[1].buses) = EntitiesOf(disk, "bus")
       /\ Range(returned[1].lines) = EntitiesOf(disk, "line")
       /\ Range(returned[1].transformers) = EntitiesOf(disk, "transformer")

\* C19: in a load by the network-solver loader the compile command is sent
\* once; a non-zero error number read after it ends the load at once with the
\* solver error carrying the solver's description, nothing enumerated and
\* nothing returned; buses, lines and transformers are enumerated only after
\* the error number was read as zero.
C19_SolverErrorNoRetry ==
    /\ solver.compiles <= 1
    /\ (loader = "dss" /\ opened) =>
          /\ solver.compiles = 1
          /\ solver.Number # 0 =>
                /\ pc = "done"
                /\ error = [kind |-> "RuntimeError", cause |-> "DssCompileError",
                            msg |-> solver.Description]
                /\ returned = None
                /\ model = SystemModel /\ idx = 1
          /\ solver.Number = 0 => error.cause # "DssCompileError"
    /\ pc \in {"dss_buses", "dss_lines", "dss_transformers", "dss_validate"} =>
          (solver.compiles = 1 /\ solver.Number = 0)

\* C19 witness: a load ended by the solver's error 302
C19_Witness ==
    /\ loader = "dss"
    /\ pc = "done"
    /\ solver.Number = 302
    /\ error.kind = "RuntimeError"
    /\ error.msg = "Redirect file not found"

\* C20: a from_dict that raises (a required key missing, a ride-through point
\* without one of its keys, a validation failure) returns nothing and leaves
\* the registry as it was: a free key stays free and a DER stored under
\* der_id stays as it was.
C20_FailedInsertNoEffect ==
    [][ LET c == lastCall'
        IN  (c.op = "from_dict" /\ c.err # NoError) =>
               /\ c.ret = None
               /\ DOMAIN ders' = DOMAIN ders
               /\ \A k \in DOMAIN ders : ders'[k] = ders[k]
               /\ c.had <=> c.der_id \in DOMAIN ders'
      ]_vars

\* C20 witness: an insert under an occupied key failed validation and the key
\* still holds a DER
C20_Witness ==
    /\ lastCall.op = "from_dict"
    /\ lastCall.err = Raise("ValueError", "regc.imax")
    /\ lastCall.had
    /\ lastCall.der_id \in DOMAIN ders

============================================================================
